---- MODULE Spec2Model ----
(***************************************************************************)
(* Model of the kubetest2 "capi" composite deployer (src/unnamed/part_001) *)
(* and of the kind bootstrap deployer it delegates to                      *)
(* (src/kubetest2-kind/deployer/deployer.go).                              *)
(*                                                                         *)
(* The harness drives one lifecycle verb at a time on one deployer         *)
(* instance.  A verb blocks on the subprocesses it runs; every action of   *)
(* the model is the piece of code that runs between two blocking points:   *)
(* it consumes the result of the subprocess the verb was blocked on and    *)
(* runs up to the next blocking call or to the return.                     *)
(***************************************************************************)
EXTENDS Integers, Sequences, FiniteSets, TLC

\* ---------------------------------------------------------------- bounds
MaxVerbs    == 2   \* number of verb invocations the harness makes
MaxManifest == 2   \* bytes the render command writes at most
PipeCap     == 1   \* capacity of the OS pipe between render and apply
MaxStdout   == 2   \* bytes (and so lines) the provider query prints at most

Bytes == {0, 1}
Names == {"kind-kubetest2", "capi-workload-cluster"}
Durations == {"30m", "bogus"}

\* ---------------------------------------------------------------- state
VARIABLES
    useExistingCluster,  \* deployer.useExistingCluster
    installCalico,       \* deployer.installCalico
    upTimeout,           \* deployer.upTimeout
    ClusterName,         \* kind Deployer.ClusterName
    workloadClusterName, \* deployer.workloadClusterName
    kubecfgPath,         \* deployer.kubecfgPath (NoPath is "")
    tmpdirs,             \* directories ioutil.TempDir has created
    files,               \* kubeconfig files ioutil.WriteFile has written
    pc,                  \* where the running verb is blocked ("idle": none)
    verb,                \* the verb running or last run
    nverbs,              \* verbs invoked so far
    ctxDone,             \* ctx.Done() of the context Up created
    calls,               \* commands the running/last verb has invoked
    outs,                \* outs[i]: how calls[i] ended ("running": not yet)
    ret,                 \* what the last verb returned
    kcCaller,            \* who called Kubeconfig(): "harness" or "up"
    kcLog,               \* one entry per Kubeconfig() call that returned
    queryOut,            \* result of kubectl.Output() in the running/last Up
    prod,                \* the render subprocess (clusterctl config cluster)
    cons,                \* the apply subprocess (kubectl apply -f -)
    produced,            \* bytes render has written to its stdout
    pipe,                \* bytes in the pipe
    consumed,            \* bytes apply has read from its stdin
    parentRead,          \* the parent holds the read end of the pipe
    prodWaited,          \* clusterctl.Wait() has returned
    consWaited,          \* kubectl.Wait() has returned
    installed,           \* the provider resource is on the management cluster
    initLog,             \* the init calls made on this management cluster
    flagv,               \* the image-name and build-type flags as given
    shouldBuild,         \* commonOptions.ShouldBuild()
    nodeImage,           \* kind Deployer.nodeImage
    buildType,           \* kind Deployer.buildType
    logLevel,            \* kind Deployer.logLevel
    configPath,          \* kind Deployer.configPath
    kubeconfigPath,      \* kind Deployer.kubeconfigPath
    kubeRoot,            \* kind Deployer.kubeRoot
    verbosity,           \* kind Deployer.verbosity
    provider,            \* deployer.provider
    kubernetesVersion,   \* deployer.kubernetesVersion
    workerCount,         \* deployer.workerCount
    controlPlaneCount,   \* deployer.controlPlaneCount
    flavor,              \* deployer.flavor
    buildArgv,           \* arguments of the last kind build node-image
    upArgv,              \* arguments of the last kind create cluster
    renderArgv           \* arguments of the last clusterctl config cluster

kindVars   == <<flagv, shouldBuild, nodeImage, buildType, logLevel, configPath,
                kubeconfigPath, kubeRoot, verbosity>>
capiVars   == <<provider, kubernetesVersion, workerCount, controlPlaneCount,
                flavor>>
argvVars   == <<buildArgv, upArgv, renderArgv>>
cfgVars    == <<useExistingCluster, installCalico, upTimeout, ClusterName,
                workloadClusterName, kindVars, capiVars, argvVars>>
kcVars     == <<kubecfgPath, tmpdirs, files, kcCaller, kcLog>>
streamVars == <<prod, cons, produced, pipe, consumed, parentRead,
                prodWaited, consWaited>>
vars == <<useExistingCluster, installCalico, upTimeout, ClusterName,
          workloadClusterName, kubecfgPath, tmpdirs, files, pc, verb, nverbs,
          ctxDone, calls, outs, ret, kcCaller, kcLog, queryOut, prod, cons,
          produced, pipe, consumed, parentRead, prodWaited, consWaited,
          installed, initLog, flagv, shouldBuild, nodeImage, buildType,
          logLevel, configPath, kubeconfigPath, kubeRoot, verbosity, provider,
          kubernetesVersion, workerCount, controlPlaneCount, flavor, buildArgv,
          upArgv, renderArgv>>
clusterVars == <<installed, initLog>>

\* ---------------------------------------------------------------- values
NoPath == 0

\* path.Join(tmpdir, "kubeconfig.yaml"): one path per temporary directory
KubeconfigFile(tmpdir) == tmpdir

\* time.ParseDuration accepts "30m" and rejects a string without a unit
ParseDurationOk_Always(s) == TRUE
ParseDurationOk(s) == s = "30m"

NoRet == [done |-> FALSE, err |-> "nil", at |-> "none", val |-> NoPath]
Returned(e, at, v) == [done |-> TRUE, err |-> e, at |-> at, val |-> v]

NoQuery == [kind |-> "none", len |-> 0, matches |-> 0, stderrHasText |-> FALSE,
            killed |-> FALSE]

\* errors.Is(err, context.DeadlineExceeded)
IsDeadlineExceeded(e) == e = "DeadlineExceeded"

\* the command records of the call log
Cmd(c, n, k, bound) == [cmd |-> c, name |-> n, kubeconfig |-> k, ctx |-> bound]

KindCreate   == Cmd("kind create cluster", ClusterName, NoPath, FALSE)
KindDelete   == Cmd("kind delete cluster", ClusterName, NoPath, FALSE)
GetProviders == Cmd("kubectl get providers", "", NoPath, TRUE)
ClusterctlInit == Cmd("clusterctl init", "", NoPath, TRUE)
WaitAvailable == Cmd("kubectl wait deployment", "", NoPath, TRUE)
ConfigCluster == Cmd("clusterctl config cluster", workloadClusterName, NoPath, TRUE)
ApplyStdin   == Cmd("kubectl apply -f -", "", NoPath, TRUE)
WaitReady    == Cmd("kubectl wait cluster", workloadClusterName, NoPath, TRUE)
GetKubeconfig == Cmd("clusterctl get kubeconfig", workloadClusterName, NoPath, FALSE)
CniApply(k)  == Cmd("kubectl apply calico", "", k, TRUE)
CniWait(k)   == Cmd("kubectl wait deployment", "", k, TRUE)
DeleteCluster == Cmd("kubectl delete cluster", ClusterName, NoPath, FALSE)

\* how a subprocess the verb blocks on can end: on its own, or, when it was
\* made with exec.CommandContext and the context is done, killed by it
Outcomes(bound) == IF bound /\ ctxDone THEN {"ok", "fail", "killed"}
                   ELSE {"ok", "fail"}

\* the error cmd.Wait() gives for an outcome: a killed process is reported
\* as an *exec.ExitError ("signal: killed"), like any other failed exit
ErrOf(o) == IF o = "killed" THEN "ExitError: signal: killed" ELSE "ExitError"

Count(c) == Cardinality({i \in 1..Len(calls) : calls[i].cmd = c})
Pos(c) == {i \in 1..Len(calls) : calls[i].cmd = c}

\* ---------------------------------------------------------------- flags
\* the flags as they can be given on the command line; "" is a flag that is
\* not given, and order says which of the two comes last when both are
Flagvs == [imageName : {"", "img:v1"}, buildType : {"", "bazel"},
           buildTypeLast : BOOLEAN]
NoFlags == [imageName |-> "", buildType |-> "", buildTypeLast |-> FALSE]

\* deployer.go lines 87-92: image-name and build-type are both bound to
\* d.nodeImage, so the one given last sets it
BoundNodeImage(f) ==
    IF f.buildType = "" THEN f.imageName
    ELSE IF f.imageName = "" THEN f.buildType
    ELSE IF f.buildTypeLast THEN f.buildType ELSE f.imageName

\* no flag is bound to d.buildType
BoundBuildType(f) == ""

\* ---------------------------------------------------------------- Init
\* the deployer after New() and flag parsing, with the kind and clusterctl
\* options left at the defaults of bindFlags
Init ==
    /\ flagv = NoFlags
    /\ shouldBuild = FALSE
    /\ nodeImage = BoundNodeImage(flagv)
    /\ buildType = BoundBuildType(flagv)
    /\ logLevel = ""
    /\ configPath = ""
    /\ kubeconfigPath = ""
    /\ kubeRoot = ""
    /\ verbosity = 0
    /\ provider = ""
    /\ kubernetesVersion = ""
    /\ workerCount = "1"
    /\ controlPlaneCount = "1"
    /\ flavor = ""
    /\ buildArgv = <<>>
    /\ upArgv = <<>>
    /\ renderArgv = <<>>
    /\ useExistingCluster \in BOOLEAN
    /\ installCalico \in BOOLEAN
    /\ upTimeout \in Durations
    /\ ClusterName = "kind-kubetest2"
    /\ workloadClusterName \in Names
    /\ kubecfgPath = NoPath
    /\ tmpdirs = 0
    /\ files = {}
    /\ pc = "idle"
    /\ verb = "none"
    /\ nverbs = 0
    /\ ctxDone = FALSE
    /\ calls = <<>>
    /\ outs = <<>>
    /\ ret = NoRet
    /\ kcCaller = "harness"
    /\ kcLog = <<>>
    /\ queryOut = NoQuery
    /\ prod = "none"
    /\ cons = "none"
    /\ produced = <<>>
    /\ pipe = <<>>
    /\ consumed = <<>>
    /\ parentRead = FALSE
    /\ prodWaited = FALSE
    /\ consWaited = FALSE
    /\ installed \in (IF useExistingCluster THEN BOOLEAN ELSE {FALSE})
    /\ initLog = <<>>

\* ---------------------------------------------------------------- helpers
\* the command the verb was blocked on ended with outcome o
Ended(o) == [outs EXCEPT ![Len(outs)] = o]

\* Up returns: the deferred cancel() ends the context
UpReturn(e, at) ==
    /\ pc' = "idle"
    /\ ret' = Returned(e, at, NoPath)
    /\ ctxDone' = TRUE

\* Up invokes command c with exec.CommandContext(ctx, ...) and blocks on it
\* at next; cmd.Start() of a context that is already done starts nothing and
\* returns ctx.Err()
InvokeCtx(log, olog, done, c, next) ==
    /\ calls' = Append(log, c)
    /\ outs' = Append(olog, IF done THEN "notstarted" ELSE "running")
    /\ IF done
       THEN UpReturn("DeadlineExceeded", c.cmd)
       ELSE /\ pc' = next
            /\ ret' = NoRet
            /\ ctxDone' = done

\* "if err != nil" after a command Up ran and blocked on
Failed_Never(o) == FALSE
Failed(o) == o # "ok"

\* a blocked command of Up failed with outcome o: Up returns its error
UpFail(o, at) ==
    /\ UpReturn(ErrOf(o), at)
    /\ outs' = Ended(o)
    /\ UNCHANGED calls

\* ---------------------------------------------------------------- Up
\* line 141: the bootstrap cluster is created unless an existing one is used
BootstrapWanted_Always == TRUE
BootstrapWanted == ~useExistingCluster

\* lines 152-153: a failed query is let through when it is an exit error
\* whose stderr has "the server doesn't have a resource type"
ToleratedQueryError(out) == out.kind = "exit" /\ out.stderrHasText

\* line 160: len(lines) == 0
NoResults_Inverted(out) == out.len # 0
NoResults_Always(out) == TRUE
NoResults(out) == out.len = 0

\* what kubectl.Output() can give: stdout (its length and how many of its
\* lines name the provider) and the error: none, an *exec.ExitError with the
\* captured stderr, or another error when the command could not be run.
\* A query that succeeds lists the provider exactly when it is installed, and
\* the resource type is known to the server once the provider is installed
QueryOutcomes ==
    {o \in [kind : {"ok", "exit", "other"}, len : 0..MaxStdout,
            matches : 0..MaxStdout, stderrHasText : BOOLEAN, killed : BOOLEAN] :
        /\ o.matches <= o.len
        /\ o.killed => (o.kind = "exit" /\ ctxDone)
        /\ o.kind = "ok" => ~o.stderrHasText
        /\ o.kind = "other" => (o.len = 0 /\ ~o.stderrHasText)
        /\ o.kind = "ok" => (o.matches >= 1 <=> installed)
        /\ o.stderrHasText => ~installed}

\* an entry of initLog: how the init ended and whether the provider was
\* installed when it was invoked
InitEntry(o, inst) == [out |-> o, installed |-> inst]

\* how the query ended, as an entry of outs
QueryEnd(out) == IF out.kind = "ok" THEN "ok"
                 ELSE IF out.kind = "other" THEN "notstarted"
                 ELSE IF out.killed THEN "killed" ELSE "fail"

\* lines 133-150: parse the timeout, make the context, create the bootstrap
\* cluster or go straight to the provider query
UpCall ==
    /\ pc = "idle"
    /\ nverbs < MaxVerbs
    /\ nverbs' = nverbs + 1
    /\ verb' = "Up"
    /\ queryOut' = NoQuery
    /\ prod' = "none" /\ cons' = "none"
    /\ produced' = <<>> /\ pipe' = <<>> /\ consumed' = <<>>
    /\ parentRead' = FALSE /\ prodWaited' = FALSE /\ consWaited' = FALSE
    /\ IF ~ParseDurationOk(upTimeout)
       THEN /\ pc' = "idle"
            /\ ret' = Returned("ParseDuration", "none", NoPath)
            /\ calls' = <<>>
            /\ outs' = <<>>
            /\ UNCHANGED ctxDone
       ELSE IF BootstrapWanted
            THEN /\ calls' = <<KindCreate>>
                 /\ outs' = <<"running">>
                 /\ pc' = "up_kind"
                 /\ ret' = NoRet
                 /\ ctxDone' = FALSE
            ELSE \E expired \in BOOLEAN :
                    InvokeCtx(<<>>, <<>>, expired, GetProviders, "up_query")
    /\ UNCHANGED <<cfgVars, clusterVars, kcVars>>

\* lines 142-150: d.kind.Up() returned; a created management cluster has no
\* provider yet
KindUpReturns ==
    /\ pc = "up_kind"
    /\ \E o \in Outcomes(FALSE) :
          IF Failed(o)
          THEN /\ UpFail(o, "kind create cluster")
               /\ UNCHANGED clusterVars
          ELSE /\ InvokeCtx(calls, Ended(o), ctxDone, GetProviders,
                            "up_query")
               /\ installed' = FALSE
               /\ initLog' = <<>>
    /\ UNCHANGED <<cfgVars, kcVars, streamVars, verb, nverbs, queryOut>>

\* lines 150-169: kubectl.Output() returned
QueryReturns ==
    /\ pc = "up_query"
    /\ \E out \in QueryOutcomes :
          /\ queryOut' = out
          /\ IF out.kind # "ok" /\ ~ToleratedQueryError(out)
             THEN /\ UpReturn(IF out.kind = "other" THEN "StartError"
                              ELSE IF out.killed THEN ErrOf("killed")
                              ELSE ErrOf("fail"),
                              "kubectl get providers")
                  /\ outs' = Ended(QueryEnd(out))
                  /\ UNCHANGED <<calls, initLog>>
             ELSE IF NoResults(out)
                  THEN /\ InvokeCtx(calls, Ended(QueryEnd(out)), ctxDone,
                                    ClusterctlInit, "up_init")
                       /\ initLog' = Append(initLog,
                              InitEntry(IF ctxDone THEN "notstarted"
                                        ELSE "running", installed))
                  ELSE /\ InvokeCtx(calls, Ended(QueryEnd(out)), ctxDone,
                                    WaitAvailable, "up_waitAvail")
                       /\ UNCHANGED initLog
    /\ UNCHANGED <<cfgVars, installed, kcVars, streamVars, verb, nverbs>>

\* lines 162-169: clusterctl init returned; an init that succeeded has
\* installed the provider, one that failed may have installed it
InitReturns ==
    /\ pc = "up_init"
    /\ \E o \in Outcomes(TRUE), partial \in BOOLEAN :
          /\ initLog' = [initLog EXCEPT ![Len(initLog)].out = o]
          /\ installed' = (o = "ok" \/ installed \/ partial)
          /\ IF Failed(o)
             THEN UpFail(o, "clusterctl init")
             ELSE InvokeCtx(calls, Ended(o), ctxDone, WaitAvailable,
                            "up_waitAvail")
    /\ UNCHANGED <<cfgVars, kcVars, streamVars, verb, nverbs, queryOut>>

\* the deadline of context.WithTimeout passes while Up is running
DeadlineElapses ==
    /\ verb = "Up"
    /\ pc # "idle"
    /\ ~ctxDone
    /\ ctxDone' = TRUE
    /\ UNCHANGED <<cfgVars, clusterVars, kcVars, streamVars, pc, verb, nverbs, calls, outs,
                   ret, queryOut>>

\* line 191: kubectl.Stdin = stdout, the read end of the render's pipe
KubectlStdin_Unset == "none"
KubectlStdin == "pipe"

\* lines 169-201: the wait for deployments returned; make the pipe, start
\* render and then apply, block in clusterctl.Wait()
WaitAvailReturns ==
    /\ pc = "up_waitAvail"
    /\ \E o \in Outcomes(TRUE), pipeOk \in BOOLEAN, prodStart \in BOOLEAN,
          consStart \in BOOLEAN :
          IF Failed(o)
          THEN /\ UpFail(o, "kubectl wait deployment")
               /\ UNCHANGED streamVars
          ELSE IF ~pipeOk
          THEN /\ UpReturn("PipeError", "clusterctl config cluster")
               /\ outs' = Ended(o)
               /\ UNCHANGED <<calls, streamVars>>
          ELSE IF ctxDone \/ ~prodStart
          THEN /\ calls' = Append(calls, ConfigCluster)
               /\ outs' = Append(Ended(o), "notstarted")
               /\ UpReturn(IF ctxDone THEN "DeadlineExceeded" ELSE "StartError",
                           "clusterctl config cluster")
               /\ UNCHANGED streamVars
          ELSE IF ~consStart
          THEN /\ calls' = calls \o <<ConfigCluster, ApplyStdin>>
               /\ outs' = Ended(o) \o <<"running", "notstarted">>
               /\ UpReturn("StartError", "kubectl apply -f -")
               /\ prod' = "running"
               /\ parentRead' = TRUE
               /\ UNCHANGED <<cons, produced, pipe, consumed, prodWaited,
                              consWaited>>
          ELSE /\ calls' = calls \o <<ConfigCluster, ApplyStdin>>
               /\ outs' = Ended(o) \o <<"running", "running">>
               /\ pc' = "up_waitProducer"
               /\ prod' = "running"
               /\ cons' = "running"
               /\ parentRead' = TRUE
               /\ UNCHANGED <<ret, ctxDone, produced, pipe, consumed,
                              prodWaited, consWaited>>
    /\ UNCHANGED <<cfgVars, clusterVars, kcVars, verb, nverbs, queryOut>>

\* the render process writes one byte to its stdout; it blocks while the
\* pipe is full and cannot write once nobody holds the read end
ProducerWrite ==
    /\ prod = "running"
    /\ Len(produced) < MaxManifest
    /\ Len(pipe) < PipeCap
    /\ cons = "running" \/ parentRead
    /\ \E b \in Bytes :
          /\ produced' = Append(produced, b)
          /\ pipe' = Append(pipe, b)
    /\ UNCHANGED <<cfgVars, clusterVars, kcVars, pc, verb, nverbs, ctxDone, calls, outs,
                   ret, queryOut, prod, cons, consumed, parentRead, prodWaited,
                   consWaited>>

\* the render process exits, or is killed once the context is done
ProducerExit ==
    /\ prod = "running"
    /\ \E o \in Outcomes(TRUE) : prod' = o
    /\ UNCHANGED <<cfgVars, clusterVars, kcVars, pc, verb, nverbs, ctxDone, calls, outs,
                   ret, queryOut, cons, produced, pipe, consumed, parentRead,
                   prodWaited, consWaited>>

\* the apply process reads one byte from its stdin
ConsumerRead ==
    /\ cons = "running"
    /\ KubectlStdin = "pipe"
    /\ pipe # <<>>
    /\ consumed' = Append(consumed, Head(pipe))
    /\ pipe' = Tail(pipe)
    /\ UNCHANGED <<cfgVars, clusterVars, kcVars, pc, verb, nverbs, ctxDone, calls, outs,
                   ret, queryOut, prod, cons, produced, parentRead, prodWaited,
                   consWaited>>

\* read on the apply's stdin gives end-of-file: the pipe is empty and every
\* write end is closed (the parent closed its own in clusterctl.Start())
AtEOF == IF KubectlStdin = "pipe" THEN pipe = <<>> /\ prod # "running"
         ELSE TRUE

\* the apply process exits: with success only after it has read its stdin
\* to the end, with a failure at any time, or killed once the context is done
ConsumerExit ==
    /\ cons = "running"
    /\ \E o \in Outcomes(TRUE) :
          /\ o = "ok" => AtEOF
          /\ cons' = o
    /\ UNCHANGED <<cfgVars, clusterVars, kcVars, pc, verb, nverbs, ctxDone, calls, outs,
                   ret, queryOut, prod, produced, pipe, consumed, parentRead,
                   prodWaited, consWaited>>

\* lines 201 and 204: "if err != nil" after cmd.Wait() of render and apply
StreamFailed_Never(p) == FALSE
StreamFailed(p) == p # "ok"

\* lines 201-204: clusterctl.Wait() returned; it closes the parent's read
\* end of the pipe
ProducerWaitReturns ==
    /\ pc = "up_waitProducer"
    /\ prod # "running"
    /\ prodWaited' = TRUE
    /\ parentRead' = FALSE
    /\ outs' = [outs EXCEPT ![Len(outs) - 1] = prod]
    /\ IF StreamFailed(prod)
       THEN UpReturn(ErrOf(prod), "clusterctl config cluster")
       ELSE /\ pc' = "up_waitConsumer"
            /\ UNCHANGED <<ret, ctxDone>>
    /\ UNCHANGED calls
    /\ UNCHANGED <<cfgVars, clusterVars, kcVars, verb, nverbs, queryOut, prod, cons,
                   produced, pipe, consumed, consWaited>>

\* lines 204-210: kubectl.Wait() returned
ConsumerWaitReturns ==
    /\ pc = "up_waitConsumer"
    /\ cons # "running"
    /\ consWaited' = TRUE
    /\ IF StreamFailed(cons)
       THEN UpFail(cons, "kubectl apply -f -")
       ELSE InvokeCtx(calls, Ended(cons), ctxDone, WaitReady, "up_waitReady")
    /\ UNCHANGED <<cfgVars, clusterVars, kcVars, verb, nverbs, queryOut, prod, cons,
                   produced, pipe, consumed, parentRead, prodWaited>>

\* ---------------------------------------------------------------- Kubeconfig
\* line 73: d.kubecfgPath != ""
HasCachedPath_Never == FALSE
HasCachedPath == kubecfgPath # NoPath

KcEntry(who, ok, path, fetched) ==
    [who |-> who, ok |-> ok, path |-> path, fetched |-> fetched]

\* a verb other than Up returns to the harness
Return(e, at, v) ==
    /\ pc' = "idle"
    /\ ret' = Returned(e, at, v)

\* lines 73-75: the cached path is returned
KubeconfigCached(who) ==
    /\ kcLog' = Append(kcLog, KcEntry(who, TRUE, kubecfgPath, FALSE))
    /\ UNCHANGED <<kubecfgPath, tmpdirs, files, kcCaller>>

\* lines 77-80: ioutil.TempDir failed
KubeconfigTempDirFailed(who) ==
    /\ kcLog' = Append(kcLog, KcEntry(who, FALSE, NoPath, FALSE))
    /\ UNCHANGED <<kubecfgPath, tmpdirs, files, kcCaller>>

\* lines 77-86 for the caller who: the temporary directory is made,
\* d.kubecfgPath is set and clusterctl get kubeconfig is run; log and olog
\* are the call log to extend
KubeconfigFetch(who, log, olog) ==
    /\ tmpdirs' = tmpdirs + 1
    /\ kubecfgPath' = KubeconfigFile(tmpdirs + 1)
    /\ kcCaller' = who
    /\ calls' = Append(log, GetKubeconfig)
    /\ outs' = Append(olog, "running")
    /\ pc' = "kc_get"
    /\ ret' = NoRet
    /\ UNCHANGED <<files, kcLog, ctxDone>>

\* line 213: if d.installCalico
CniWanted_Always == TRUE
CniWanted == installCalico

\* lines 213-219: the wait for the cluster returned
UpCached(path) ==
    InvokeCtx(calls, Ended("ok"), ctxDone, CniApply(path), "up_cniApply")
UpTempDirFailed ==
    /\ UpReturn("TempDirError", "TempDir")
    /\ outs' = Ended("ok")
    /\ UNCHANGED calls
WaitReadyReturns ==
    /\ pc = "up_waitReady"
    /\ \E o \in Outcomes(TRUE) :
          IF Failed(o)
          THEN /\ UpFail(o, "kubectl wait cluster")
               /\ UNCHANGED kcVars
          ELSE IF ~CniWanted
          THEN /\ UpReturn("nil", "none")
               /\ outs' = Ended(o)
               /\ UNCHANGED <<calls, kcVars>>
          ELSE IF HasCachedPath
          THEN KubeconfigCached("up") /\ UpCached(kubecfgPath)
          ELSE \E tmpOk \in BOOLEAN :
                  IF ~tmpOk
                  THEN KubeconfigTempDirFailed("up") /\ UpTempDirFailed
                  ELSE KubeconfigFetch("up", calls, Ended("ok"))
    /\ UNCHANGED <<cfgVars, clusterVars, streamVars, verb, nverbs, queryOut>>

\* the harness calls Kubeconfig()
HarnessCached(path) ==
    /\ Return("nil", "none", path)
    /\ calls' = <<>>
    /\ outs' = <<>>
    /\ UNCHANGED ctxDone
HarnessTempDirFailed ==
    /\ Return("TempDirError", "TempDir", NoPath)
    /\ calls' = <<>>
    /\ outs' = <<>>
    /\ UNCHANGED ctxDone
KubeconfigCall ==
    /\ pc = "idle"
    /\ nverbs < MaxVerbs
    /\ nverbs' = nverbs + 1
    /\ verb' = "Kubeconfig"
    /\ IF HasCachedPath
       THEN KubeconfigCached("harness") /\ HarnessCached(kubecfgPath)
       ELSE \E tmpOk \in BOOLEAN :
               IF ~tmpOk
               THEN KubeconfigTempDirFailed("harness")
                    /\ HarnessTempDirFailed
               ELSE KubeconfigFetch("harness", <<>>, <<>>)
    /\ UNCHANGED <<cfgVars, clusterVars, streamVars, queryOut>>

\* lines 86-94 (and 215-219 in Up): clusterctl.Output() returned
GetKubeconfigReturns ==
    /\ pc = "kc_get"
    /\ \E o \in Outcomes(FALSE), writeOk \in BOOLEAN :
          LET e == IF o # "ok" THEN ErrOf(o)
                   ELSE IF ~writeOk THEN "WriteFileError" ELSE "nil"
              at == IF o # "ok" THEN "clusterctl get kubeconfig"
                    ELSE IF ~writeOk THEN "WriteFile" ELSE "none"
          IN  /\ files' = IF e = "nil" THEN files \cup {kubecfgPath} ELSE files
              /\ kcLog' = Append(kcLog, KcEntry(kcCaller, e = "nil",
                                   IF e = "nil" THEN kubecfgPath ELSE NoPath,
                                   TRUE))
              /\ IF kcCaller = "up"
                 THEN IF e = "nil"
                      THEN InvokeCtx(calls, Ended("ok"), ctxDone,
                                     CniApply(kubecfgPath),
                                     "up_cniApply")
                      ELSE /\ UpReturn(e, at)
                           /\ outs' = Ended(o)
                           /\ UNCHANGED calls
                 ELSE /\ Return(e, at, IF e = "nil" THEN kubecfgPath ELSE NoPath)
                      /\ outs' = Ended(o)
                      /\ UNCHANGED <<calls, ctxDone>>
    /\ UNCHANGED <<cfgVars, clusterVars, streamVars, verb, nverbs, queryOut, kubecfgPath,
                   tmpdirs, kcCaller>>

\* lines 219-223: the apply of the CNI manifest returned
CniApplyReturns ==
    /\ pc = "up_cniApply"
    /\ \E o \in Outcomes(TRUE) :
          IF Failed(o)
          THEN UpFail(o, "kubectl apply calico")
          ELSE InvokeCtx(calls, Ended(o), ctxDone, CniWait(kubecfgPath),
                         "up_cniWait")
    /\ UNCHANGED <<cfgVars, clusterVars, kcVars, streamVars, verb, nverbs, queryOut>>

\* lines 223-228: the wait for the workload cluster's deployments returned
CniWaitReturns ==
    /\ pc = "up_cniWait"
    /\ \E o \in Outcomes(TRUE) :
          /\ IF Failed(o)
             THEN UpReturn(ErrOf(o), "kubectl wait deployment")
             ELSE UpReturn("nil", "none")
          /\ outs' = Ended(o)
          /\ UNCHANGED calls
    /\ UNCHANGED <<cfgVars, clusterVars, kcVars, streamVars, verb, nverbs, queryOut>>

\* ---------------------------------------------------------------- Down
\* lines 231-233: delete the cluster object
DownCall ==
    /\ pc = "idle"
    /\ nverbs < MaxVerbs
    /\ nverbs' = nverbs + 1
    /\ verb' = "Down"
    /\ calls' = <<DeleteCluster>>
    /\ outs' = <<"running">>
    /\ pc' = "down_delete"
    /\ ret' = NoRet
    /\ UNCHANGED <<cfgVars, clusterVars, kcVars, streamVars, ctxDone, queryOut>>

\* line 233: "if err != nil" after the delete of the cluster object
DeleteFailed_Never(o) == FALSE
DeleteFailed(o) == o # "ok"

\* lines 233-237: kubectl delete returned; on success go on to d.kind.Down()
DeleteReturns ==
    /\ pc = "down_delete"
    /\ \E o \in Outcomes(FALSE) :
          IF DeleteFailed(o)
          THEN /\ Return(ErrOf(o), "kubectl delete cluster", NoPath)
               /\ outs' = Ended(o)
               /\ UNCHANGED calls
          ELSE /\ calls' = Append(calls, KindDelete)
               /\ outs' = Append(Ended(o), "running")
               /\ pc' = "down_kind"
               /\ UNCHANGED ret
    /\ UNCHANGED <<cfgVars, clusterVars, kcVars, streamVars, verb, nverbs, ctxDone, queryOut>>

\* line 237 (deployer.go 145-157): kind delete cluster returned; a deleted
\* management cluster takes the provider with it
KindDownReturns ==
    /\ pc = "down_kind"
    /\ \E o \in Outcomes(FALSE) :
          /\ IF o # "ok"
             THEN /\ Return(ErrOf(o), "kind delete cluster", NoPath)
                  /\ UNCHANGED clusterVars
             ELSE /\ Return("nil", "none", NoPath)
                  /\ installed' = FALSE
                  /\ initLog' = <<>>
          /\ outs' = Ended(o)
    /\ UNCHANGED <<cfgVars, kcVars, streamVars, verb, nverbs, ctxDone, calls,
                   queryOut>>

\* ---------------------------------------------------------------- Spec
Next ==
    \/ UpCall
    \/ KindUpReturns
    \/ QueryReturns
    \/ InitReturns
    \/ DeadlineElapses
    \/ WaitAvailReturns
    \/ ProducerWrite
    \/ ProducerExit
    \/ ConsumerRead
    \/ ConsumerExit
    \/ ProducerWaitReturns
    \/ ConsumerWaitReturns
    \/ WaitReadyReturns
    \/ KubeconfigCall
    \/ GetKubeconfigReturns
    \/ CniApplyReturns
    \/ CniWaitReturns
    \/ DownCall
    \/ DeleteReturns
    \/ KindDownReturns

Spec == Init /\ [][Next]_vars

TypeOK ==
    /\ pc \in {"idle", "up_kind", "up_query", "up_init", "up_waitAvail",
               "up_waitProducer", "up_waitConsumer", "up_waitReady", "kc_get",
               "up_cniApply", "up_cniWait", "down_delete", "down_kind"}
    /\ verb \in {"none", "Up", "Down", "Kubeconfig"}
    /\ nverbs \in 0..MaxVerbs
    /\ kubecfgPath \in 0..tmpdirs
    /\ Len(pipe) <= PipeCap
    /\ Len(produced) <= MaxManifest
    /\ Len(outs) = Len(calls)

\* ---------------------------------------------------------------- arguments
\* The argument vectors are functions of the options alone; they are checked
\* over all the options in a specification of their own, in which the harness
\* calls the kind deployer's Build and Up and Up renders the manifest.

\* well-known kind related constants (deployer.go line 213)
kindDefaultBuiltImageName == "kindest/node:latest"

\* strconv.Itoa for the verbosities of the model
Digit(n) == CASE n = 0 -> "0" [] n = 1 -> "1" [] n = 2 -> "2" [] n = 3 -> "3"
              [] n = 4 -> "4" [] n = 5 -> "5" [] n = 6 -> "6" [] n = 7 -> "7"
              [] n = 8 -> "8" [] n = 9 -> "9"
Itoa(n) == Digit(n)

Opt(cond, flag, value) == IF cond THEN <<flag, value>> ELSE <<>>

\* deployer.go lines 121-129: the image of kind create cluster
UpImageArgs ==
    IF nodeImage # "" THEN <<"--image", nodeImage>>
    ELSE IF shouldBuild THEN <<"--image", kindDefaultBuiltImageName>>
    ELSE <<>>

\* deployer.go lines 199-205: the image of kind build node-image
BuildImageArgs_NoDefault ==
    IF nodeImage # "" THEN <<"--image", nodeImage>> ELSE <<>>
BuildImageArgs ==
    IF nodeImage # "" THEN <<"--image", nodeImage>>
    ELSE IF shouldBuild THEN <<"--image", kindDefaultBuiltImageName>>
    ELSE <<>>

\* deployer.go lines 114-138
KindUpArgs ==
    <<"create", "cluster", "--name", ClusterName>>
    \o Opt(logLevel # "", "--loglevel", logLevel)
    \o UpImageArgs
    \o Opt(configPath # "", "--config", configPath)
    \o Opt(kubeconfigPath # "", "--kubeconfig", kubeconfigPath)
    \o Opt(verbosity > 0, "--verbosity", Itoa(verbosity))

\* deployer.go lines 187-205
KindBuildArgs ==
    <<"build", "node-image">>
    \o Opt(logLevel # "", "--loglevel", logLevel)
    \o Opt(buildType # "", "--type", buildType)
    \o Opt(kubeRoot # "", "--kube-root", kubeRoot)
    \o BuildImageArgs

\* lines 180: the flavor is always passed
FlavorArgs_IfSet == Opt(flavor # "", "--flavor", flavor)
FlavorArgs == <<"--flavor", flavor>>

\* lines 173-181
ConfigClusterArgs ==
    <<"config", "cluster", workloadClusterName,
      "--infrastructure", provider,
      "--kubernetes-version", kubernetesVersion,
      "--worker-machine-count", workerCount,
      "--control-plane-machine-count", controlPlaneCount>>
    \o FlavorArgs

InitArgs ==
    /\ flagv \in Flagvs
    /\ shouldBuild \in BOOLEAN
    /\ nodeImage = BoundNodeImage(flagv)
    /\ buildType = BoundBuildType(flagv)
    /\ logLevel \in {"", "debug"}
    /\ configPath \in {"", "kind.yaml"}
    /\ kubeconfigPath \in {"", "kube.cfg"}
    /\ kubeRoot \in {"", "/src/k8s"}
    /\ verbosity \in {0, 3}
    /\ provider \in {"aws", "docker"}
    /\ kubernetesVersion = "v1.20.0"
    /\ workerCount \in {"2", "02"}
    /\ controlPlaneCount \in {"3", "x"}
    /\ flavor \in {"", "ha"}
    /\ buildArgv = <<>>
    /\ upArgv = <<>>
    /\ renderArgv = <<>>
    /\ useExistingCluster = FALSE
    /\ installCalico = FALSE
    /\ upTimeout = "30m"
    /\ ClusterName = "kind-kubetest2"
    /\ workloadClusterName \in {"wl"}
    /\ kubecfgPath = NoPath
    /\ tmpdirs = 0
    /\ files = {}
    /\ pc = "idle"
    /\ verb = "none"
    /\ nverbs = 0
    /\ ctxDone = FALSE
    /\ calls = <<>>
    /\ outs = <<>>
    /\ ret = NoRet
    /\ kcCaller = "harness"
    /\ kcLog = <<>>
    /\ queryOut = NoQuery
    /\ prod = "none"
    /\ cons = "none"
    /\ produced = <<>>
    /\ pipe = <<>>
    /\ consumed = <<>>
    /\ parentRead = FALSE
    /\ prodWaited = FALSE
    /\ consWaited = FALSE
    /\ installed = FALSE
    /\ initLog = <<>>

runVars == <<useExistingCluster, installCalico, upTimeout, ClusterName,
             workloadClusterName, kindVars, capiVars, kcVars, streamVars,
             clusterVars, pc, verb, nverbs, ctxDone, calls, outs, ret,
             queryOut>>

\* deployer.go lines 185-210: Build runs kind build node-image
KindBuild ==
    /\ buildArgv' = KindBuildArgs
    /\ UNCHANGED <<runVars, upArgv, renderArgv>>

\* deployer.go lines 113-143: Up runs kind create cluster
KindUp ==
    /\ upArgv' = KindUpArgs
    /\ UNCHANGED <<runVars, buildArgv, renderArgv>>

\* lines 173-183: Up makes the render command
RenderCmd ==
    /\ renderArgv' = ConfigClusterArgs
    /\ UNCHANGED <<runVars, buildArgv, upArgv>>

NextArgs ==
    \/ KindBuild
    \/ KindUp
    \/ RenderCmd

ArgsSpec == InitArgs /\ [][NextArgs]_vars

\* ---------------------------------------------------------------- properties
Last(q) == q[Len(q)]

\* C1: one call of the composite Down invokes the bootstrap deployer's Down
\* exactly once, whether the delete of the workload cluster succeeded or not.
C1_DownAlwaysCallsBootstrapDown ==
    (verb = "Down" /\ ret.done) => Count("kind delete cluster") = 1

\* C2: without use-existing-cluster, Up invokes the bootstrap create first
\* and exactly once, no other command is invoked before it has succeeded, and
\* when it fails Up returns an error having run nothing else; with
\* use-existing-cluster, Up never invokes the bootstrap create.
C2_BootstrapCreateFirst ==
    verb = "Up" =>
        /\ useExistingCluster => Count("kind create cluster") = 0
        /\ (~useExistingCluster /\ calls # <<>>) =>
              /\ calls[1].cmd = "kind create cluster"
              /\ Count("kind create cluster") = 1
              /\ Len(calls) >= 2 => outs[1] = "ok"
              /\ outs[1] \notin {"ok", "running"} =>
                    /\ ret.done
                    /\ ret.err # "nil"
                    /\ Len(calls) = 1

C2_Witness ==
    /\ verb = "Up"
    /\ ~useExistingCluster
    /\ Len(calls) >= 2
    /\ calls[2].cmd = "kubectl get providers"

\* C3: when the provider query succeeds, Up does not invoke init if the
\* output has a matching line, and invokes init exactly once, right after
\* the query and before the wait for deployments, if the output is empty.
C3_IdempotentInstall ==
    (verb = "Up" /\ queryOut.kind = "ok") =>
        /\ queryOut.matches >= 1 => Count("clusterctl init") = 0
        /\ queryOut.len = 0 =>
              /\ Count("clusterctl init") = 1
              /\ \A i \in Pos("clusterctl init") :
                    /\ i > 1
                    /\ calls[i - 1].cmd = "kubectl get providers"
                    /\ \A j \in Pos("kubectl wait deployment") : i < j

C3_Witness ==
    /\ verb = "Up"
    /\ queryOut.kind = "ok"
    /\ queryOut.len = 0
    /\ Count("clusterctl init") = 1
    /\ Count("kubectl wait deployment") >= 1

\* C4: a provider query that fails with the "resource type not found" text
\* on stderr does not abort Up, and Up invokes init whatever the query wrote
\* to stdout; any other failure of the query makes Up return an error with
\* neither init nor a later command invoked.
C4_QueryFailureHandling ==
    (verb = "Up" /\ queryOut.kind \in {"exit", "other"}) =>
        IF queryOut.kind = "exit" /\ queryOut.stderrHasText
        THEN Count("clusterctl init") = 1
        ELSE /\ ret.done
             /\ ret.err # "nil"
             /\ Last(calls).cmd = "kubectl get providers"

\* C5: when the first Kubeconfig call succeeds, every Kubeconfig call
\* returns the same path and "get kubeconfig" is invoked once in all: only
\* the first call fetches, one temporary directory and one file exist.
C5_KubeconfigMemoized ==
    (kcLog # <<>> /\ kcLog[1].ok) =>
        /\ pc # "kc_get"
        /\ tmpdirs = 1
        /\ files = {kcLog[1].path}
        /\ \A i \in 1..Len(kcLog) :
              /\ kcLog[i].ok
              /\ kcLog[i].path = kcLog[1].path
              /\ kcLog[i].fetched <=> i = 1

C5_Witness ==
    /\ Len(kcLog) >= 2
    /\ kcLog[1].ok
    /\ kcLog[2].ok
    /\ ~kcLog[2].fetched

\* C6: a failed Kubeconfig call caches nothing: the next call does not
\* return a path without invoking "get kubeconfig" again.
C6_FailureNotCached ==
    \A i \in 1..(Len(kcLog) - 1) :
        ~kcLog[i].ok => (kcLog[i + 1].fetched \/ ~kcLog[i + 1].ok)

\* C7: the cluster that Down deletes has the name that Up gives to
\* "config cluster" and to the wait for Ready: the workload cluster name.
C7_DownDeletesWorkloadCluster ==
    \A i \in 1..Len(calls) :
        calls[i].cmd \in {"clusterctl config cluster", "kubectl wait cluster",
                          "kubectl delete cluster"}
            => calls[i].name = workloadClusterName

\* C8: every subprocess that is running during Up is bound to the deadline
\* of that Up, so that the deadline ends it.
C8_EverySubprocessBoundToDeadline ==
    (verb = "Up" /\ pc # "idle") =>
        \A i \in 1..Len(calls) : outs[i] = "running" => calls[i].ctx

\* C9: when the deadline kills the provider query, Up returns a failure
\* that is the deadline-exceeded error, with no later command invoked.
C9_DeadlineDuringQuery ==
    (verb = "Up" /\ queryOut.killed) =>
        /\ ret.done
        /\ IsDeadlineExceeded(ret.err)
        /\ Last(calls).cmd = "kubectl get providers"

C11_InitAtMostOnce == Len(initLog) <= 1

\* C11 amended: on one management cluster init is never invoked while the
\* provider is installed, and an init is invoked again only when every init
\* before it has failed; so no Up invokes init after an init that succeeded.
C11_NoInitAfterInstall ==
    \A i \in 1..Len(initLog) :
        /\ ~initLog[i].installed
        /\ i < Len(initLog) => initLog[i].out # "ok"

C11_Witness ==
    /\ verb = "Up"
    /\ nverbs >= 2
    /\ Len(initLog) = 1
    /\ initLog[1].out = "ok"
    /\ queryOut.kind = "ok"
    /\ queryOut.matches >= 1
    /\ Count("clusterctl init") = 0
    /\ Count("kubectl wait deployment") >= 1

\* the values that follow "--image" in an argument vector
ImageArg(argv) ==
    {argv[i + 1] : i \in {j \in 1..(Len(argv) - 1) : argv[j] = "--image"}}

\* C12: Build and Up choose the image by the same rule (the explicit image
\* name if set, else kindest/node:latest when ShouldBuild(), else none), so
\* a Build followed by an Up passes the same image to both commands.
C12_SameImageRule ==
    LET rule == IF nodeImage # "" THEN {nodeImage}
                ELSE IF shouldBuild THEN {"kindest/node:latest"}
                ELSE {}
    IN  /\ buildArgv # <<>> => ImageArg(buildArgv) = rule
        /\ upArgv # <<>> => ImageArg(upArgv) = rule
        /\ (buildArgv # <<>> /\ upArgv # <<>>) =>
              ImageArg(buildArgv) = ImageArg(upArgv)

C12_Witness ==
    /\ buildArgv # <<>>
    /\ upArgv # <<>>
    /\ nodeImage = ""
    /\ shouldBuild
    /\ ImageArg(buildArgv) = {"kindest/node:latest"}
    /\ ImageArg(upArgv) = {"kindest/node:latest"}

\* C13: the render command gets exactly config, cluster, the workload name,
\* then the provider, version, worker count, control-plane count and flavor,
\* each after its flag, the counts as given and the flavor even when empty.
C13_RenderArgv ==
    renderArgv # <<>> =>
        /\ Len(renderArgv) = 13
        /\ renderArgv[1] = "config"
        /\ renderArgv[2] = "cluster"
        /\ renderArgv[3] = workloadClusterName
        /\ renderArgv[4] = "--infrastructure"
        /\ renderArgv[5] = provider
        /\ renderArgv[6] = "--kubernetes-version"
        /\ renderArgv[7] = kubernetesVersion
        /\ renderArgv[8] = "--worker-machine-count"
        /\ renderArgv[9] = workerCount
        /\ renderArgv[10] = "--control-plane-machine-count"
        /\ renderArgv[11] = controlPlaneCount
        /\ renderArgv[12] = "--flavor"
        /\ renderArgv[13] = flavor

C13_Witness ==
    /\ renderArgv # <<>>
    /\ flavor = ""
    /\ workerCount = "02"
    /\ controlPlaneCount = "x"
    /\ renderArgv[9] = "02"
    /\ renderArgv[13] = ""

\* the order of the steps of Up: what may be invoked right after what
UpFollows(c, d) ==
    \/ c.cmd = "kind create cluster" /\ d.cmd = "kubectl get providers"
    \/ c.cmd = "kubectl get providers"
          /\ (d.cmd = "clusterctl init"
              \/ (d.cmd = "kubectl wait deployment" /\ d.kubeconfig = NoPath))
    \/ c.cmd = "clusterctl init"
          /\ d.cmd = "kubectl wait deployment" /\ d.kubeconfig = NoPath
    \/ c.cmd = "kubectl wait deployment" /\ c.kubeconfig = NoPath
          /\ d.cmd = "clusterctl config cluster"
    \/ c.cmd = "clusterctl config cluster" /\ d.cmd = "kubectl apply -f -"
    \/ c.cmd = "kubectl apply -f -" /\ d.cmd = "kubectl wait cluster"
    \/ c.cmd = "kubectl wait cluster"
          /\ installCalico
          /\ d.cmd \in {"clusterctl get kubeconfig", "kubectl apply calico"}
    \/ c.cmd = "clusterctl get kubeconfig" /\ d.cmd = "kubectl apply calico"
    \/ c.cmd = "kubectl apply calico"
          /\ d.cmd = "kubectl wait deployment" /\ d.kubeconfig # NoPath

\* step i of the running Up has succeeded; a provider query that ended with
\* the "resource type not found" error counts as a step that succeeded
UpStepOk(i) ==
    \/ outs[i] = "ok"
    \/ /\ calls[i].cmd = "kubectl get providers"
       /\ outs[i] \in {"fail", "killed"}
       /\ queryOut.kind = "exit"
       /\ queryOut.stderrHasText

\* C14: Up runs its steps in the fixed order; a step is started only after
\* every earlier step has succeeded (render and apply are started together);
\* the first step that fails makes Up return its failure with nothing
\* started after it; Up returns success only when every step it ran
\* succeeded and the last one was run; Up invokes no delete command.
C14_UpStepOrder ==
    verb = "Up" =>
        /\ calls # <<>> =>
              calls[1].cmd = IF useExistingCluster THEN "kubectl get providers"
                             ELSE "kind create cluster"
        /\ \A i \in 1..(Len(calls) - 1) : UpFollows(calls[i], calls[i + 1])
        /\ \A i \in 1..Len(calls) : \A j \in (i + 1)..Len(calls) :
              \/ UpStepOk(i)
              \/ /\ calls[i].cmd = "clusterctl config cluster"
                 /\ calls[j].cmd = "kubectl apply -f -"
        /\ \A i \in 1..Len(calls) :
              (outs[i] \in {"fail", "killed"} /\ ~UpStepOk(i)) =>
                  /\ ret.done
                  /\ ret.err = ErrOf(outs[i])
                  /\ ret.at = calls[i].cmd
        /\ (ret.done /\ ret.err = "nil") =>
              /\ calls # <<>>
              /\ \A i \in 1..Len(calls) : UpStepOk(i)
              /\ Last(calls).cmd = IF installCalico
                                   THEN "kubectl wait deployment"
                                   ELSE "kubectl wait cluster"
              /\ installCalico => Last(calls).kubeconfig # NoPath
        /\ Count("kubectl delete cluster") = 0
        /\ Count("kind delete cluster") = 0

C14_Witness ==
    /\ verb = "Up"
    /\ installCalico
    /\ ~useExistingCluster
    /\ ret.done
    /\ ret.err = "nil"
    /\ Count("clusterctl init") = 1
    /\ Len(calls) = 10

\* C15: render and then apply are both started before either is waited on;
\* render is waited on first and apply second; Up goes on to the wait for
\* the cluster only when both exited with success, and otherwise returns the
\* first failure met in the order start, start, wait, wait.
C15_StreamStartWaitOrder ==
    verb = "Up" =>
        /\ pc = "up_waitProducer" =>
              /\ prod # "none" /\ cons # "none"
              /\ ~prodWaited /\ ~consWaited
        /\ \A i \in Pos("kubectl apply -f -") :
              i > 1 /\ calls[i - 1].cmd = "clusterctl config cluster"
        /\ prodWaited => (prod \notin {"none", "running"} /\ cons # "none")
        /\ consWaited => (prodWaited /\ prod = "ok"
                          /\ cons \notin {"none", "running"})
        /\ Count("kubectl wait cluster") >= 1 =>
              /\ prodWaited /\ consWaited
              /\ prod = "ok" /\ cons = "ok"
        /\ \A i \in Pos("clusterctl config cluster") :
              outs[i] = "notstarted" =>
                  /\ ret.done /\ ret.err # "nil"
                  /\ ret.at = "clusterctl config cluster"
                  /\ Count("kubectl apply -f -") = 0
        /\ \A i \in Pos("kubectl apply -f -") :
              outs[i] = "notstarted" =>
                  /\ ret.done /\ ret.err # "nil"
                  /\ ret.at = "kubectl apply -f -"
                  /\ ~prodWaited
        /\ (prodWaited /\ prod # "ok") =>
              /\ ret.done /\ ret.err = ErrOf(prod)
              /\ ret.at = "clusterctl config cluster"
              /\ ~consWaited
        /\ (consWaited /\ cons # "ok") =>
              /\ ret.done /\ ret.err = ErrOf(cons)
              /\ ret.at = "kubectl apply -f -"

C15_Witness ==
    /\ verb = "Up"
    /\ prodWaited
    /\ prod = "ok"
    /\ consWaited
    /\ cons = "fail"
    /\ ret.done
    /\ ret.at = "kubectl apply -f -"

\* C16: in Down the delete of the cluster object is invoked first and has
\* exited before the bootstrap delete is started; when it succeeded Down
\* returns what the bootstrap delete returned, and when it failed Down
\* returns its failure.
C16_DownOrderAndResult ==
    (verb = "Down" /\ calls # <<>>) =>
        /\ calls[1].cmd = "kubectl delete cluster"
        /\ Count("kubectl delete cluster") = 1
        /\ \A i \in Pos("kind delete cluster") : i = 2 /\ outs[1] = "ok"
        /\ outs[1] \in {"fail", "killed"} =>
              /\ ret.done
              /\ ret.err = ErrOf(outs[1])
              /\ ret.at = "kubectl delete cluster"
        /\ (ret.done /\ outs[1] = "ok") =>
              /\ Len(calls) = 2
              /\ calls[2].cmd = "kind delete cluster"
              /\ outs[2] # "running"
              /\ ret.err = IF outs[2] = "ok" THEN "nil" ELSE ErrOf(outs[2])
              /\ outs[2] # "ok" => ret.at = "kind delete cluster"

C16_Witness ==
    /\ verb = "Down"
    /\ ret.done
    /\ outs = <<"ok", "fail">>
    /\ ret.err = "ExitError"
    /\ ret.at = "kind delete cluster"

\* C17: the CNI is installed only when the flag is set and only after the
\* wait for the cluster has succeeded: first Kubeconfig() is resolved, then
\* the CNI manifest is applied with the path it returned, then the wait for
\* deployments is run with the same path; without the flag Up never
\* resolves the kubeconfig, never gets it and runs no CNI command.
C17_CniOnlyWhenAsked ==
    LET cniWaits == {j \in Pos("kubectl wait deployment") :
                        calls[j].kubeconfig # NoPath}
    IN
    /\ ~installCalico =>
          /\ ~(pc = "kc_get" /\ kcCaller = "up")
          /\ \A i \in 1..Len(kcLog) : kcLog[i].who # "up"
          /\ verb = "Up" =>
                /\ Count("clusterctl get kubeconfig") = 0
                /\ Count("kubectl apply calico") = 0
                /\ cniWaits = {}
    /\ verb = "Up" =>
          /\ \A k \in Pos("clusterctl get kubeconfig") :
                /\ k > 1
                /\ calls[k - 1].cmd = "kubectl wait cluster"
                /\ outs[k - 1] = "ok"
          /\ \A i \in Pos("kubectl apply calico") :
                /\ i > 1
                /\ \/ calls[i - 1].cmd = "kubectl wait cluster"
                   \/ /\ calls[i - 1].cmd = "clusterctl get kubeconfig"
                      /\ Last(kcLog).fetched
                /\ outs[i - 1] = "ok"
                /\ \E w \in Pos("kubectl wait cluster") :
                      w < i /\ outs[w] = "ok"
                /\ kcLog # <<>>
                /\ Last(kcLog).who = "up"
                /\ Last(kcLog).ok
                /\ Last(kcLog).path # NoPath
                /\ calls[i].kubeconfig = Last(kcLog).path
          /\ \A j \in cniWaits :
                /\ j > 1
                /\ calls[j - 1].cmd = "kubectl apply calico"
                /\ outs[j - 1] = "ok"
                /\ calls[j].kubeconfig = calls[j - 1].kubeconfig

C17_Witness ==
    /\ verb = "Up"
    /\ installCalico
    /\ ret.done
    /\ ret.err = "nil"
    /\ Count("clusterctl get kubeconfig") = 1
    /\ Count("kubectl apply calico") = 1
    /\ Last(calls).kubeconfig = Last(kcLog).path

\* C18: an up-timeout value that is not a duration makes Up return an
\* error before any subprocess is started: no bootstrap create, no
\* provider query, no other command, no process of the stream.
C18_BadTimeoutRunsNothing ==
    (verb = "Up" /\ upTimeout = "bogus") =>
        /\ ret.done
        /\ ret.err = "ParseDuration"
        /\ calls = <<>>
        /\ prod = "none"
        /\ cons = "none"
        /\ pc = "idle"

C18_Witness ==
    /\ verb = "Up"
    /\ upTimeout = "bogus"
    /\ ret.done
    /\ ret.err # "nil"

\* C19: with the build-type option set to T, Build passes --type T to
\* "build node-image", and the --image argument of Build and of Up is
\* determined only by the image-name option and ShouldBuild().
C19_BuildTypePassed ==
    LET image == IF flagv.imageName # "" THEN {flagv.imageName}
                 ELSE IF shouldBuild THEN {kindDefaultBuiltImageName}
                 ELSE {}
    IN  /\ (buildArgv # <<>> /\ flagv.buildType # "") =>
              \E i \in 1..(Len(buildArgv) - 1) :
                  /\ buildArgv[i] = "--type"
                  /\ buildArgv[i + 1] = flagv.buildType
        /\ buildArgv # <<>> => ImageArg(buildArgv) = image
        /\ upArgv # <<>> => ImageArg(upArgv) = image

\* C20: whenever Up has returned, on any path, every process of the stream
\* that Up started has been waited on, and none of them is still running.
C20_EveryStartedWaited ==
    (verb = "Up" /\ ret.done) =>
        /\ prod # "none" => (prodWaited /\ prod # "running")
        /\ cons # "none" => (consWaited /\ cons # "running")
====
